---- MODULE Spec2Model ----
(***************************************************************************)
(* Model of src/etl.py: the two pipelines process_song_data and            *)
(* process_log_data, the entry point main, and the output sink they write. *)
(*                                                                         *)
(* A JSON record is a function from the keys it carries to their values;   *)
(* a key that the record lacks is simply not in its DOMAIN.  A DataFrame   *)
(* is a record [columns, rows]; a cell that is null is a column that is    *)
(* not in the DOMAIN of the row.  DataFrames read from the input keep the  *)
(* scan order (rows is a sequence); de-duplicated DataFrames have no       *)
(* defined order and are kept as a set of rows.                            *)
(*                                                                         *)
(* A call of a function of etl.py is one action.  The body of the function *)
(* is evaluated statement by statement; an exception ends the call at the  *)
(* statement that raises it and leaves the sink as the statements before   *)
(* it left it.                                                             *)
(***************************************************************************)
EXTENDS Integers, Sequences, FiniteSets, TLC

VARIABLES song_data, log_data, tz_offset, sink, writes,
          song_frame, log_frame, last, calls, song_sinks, sink_before,
          udf_calls, id_calls

vars == <<song_data, log_data, tz_offset, sink, writes,
          song_frame, log_frame, last, calls, song_sinks, sink_before,
          udf_calls, id_calls>>

----------------------------------------------------------------------------
(* Bounds of the model.                                                    *)

MaxSongs == 2

MaxLogs == 2

MaxCalls == 2

----------------------------------------------------------------------------
(* Generic helpers.                                                        *)

Range(s) == {s[i] : i \in DOMAIN s}

EmptyFrame == [n \in {} |-> {}]

Drop(rec, key) == [k \in DOMAIN rec \ {key} |-> rec[k]]

Cell(row, c) == IF c \in DOMAIN row THEN <<row[c]>> ELSE <<>>

Project(row, cols) == [c \in cols \cap DOMAIN row |-> row[c]]

SeqsUpTo(S, n) == UNION {[1..k -> S] : k \in 1..n}

----------------------------------------------------------------------------
(* Input data: the JSON files under song_data/ and log_data/.              *)

SongRecord(sid, aid, name, yr) ==
    [song_id |-> sid, title |-> "T1", artist_id |-> aid, artist_name |-> name,
     artist_location |-> "L1", artist_latitude |-> "1.0",
     artist_longitude |-> "2.0", year |-> yr, duration |-> "200.0"]

SongRecordSet ==
    { SongRecord("S1", "A1", "N1", "2000"),
      SongRecord("S1", "A1", "N2", "2001"),
      SongRecord("S2", "A2", "N1", "2000"),
      Drop(SongRecord("S1", "A1", "N1", "2000"), "song_id"),
      Drop(SongRecord("S1", "A1", "N1", "2000"), "year") }

\* ts is a count of milliseconds since the epoch; 1541990258796 does not fit
\* a 32-bit integer, so a ts is kept as whole seconds and milliseconds.
Ts(s, m) == [sec |-> s, ms |-> m]

TsExample == Ts(1541990258, 796)

TsSameSecond == Ts(1541990258, 100)

TsYearEnd == Ts(1546214400, 0)

LogRecord(uid, lvl, pg, t) ==
    [userId |-> uid, firstName |-> "F", lastName |-> "L", gender |-> "G",
     level |-> lvl, ts |-> t, sessionId |-> "1", page |-> pg,
     location |-> "Loc", userAgent |-> "UA", song |-> "T1", artist |-> "N1",
     length |-> "200.0"]

LogRecordSet ==
    { LogRecord("U1", "free", "NextSong", TsExample),
      LogRecord("U1", "paid", "NextSong", TsSameSecond),
      LogRecord("U2", "free", "Home", TsExample),
      [LogRecord("U2", "free", "NextSong", TsYearEnd) EXCEPT !.song = "T9"],
      Drop(LogRecord("U1", "free", "NextSong", TsExample), "userId"),
      Drop(LogRecord("U1", "paid", "NextSong", TsSameSecond), "ts"),
      Drop(LogRecord("U2", "free", "NextSong", TsYearEnd), "level"),
      Drop(LogRecord("U2", "free", "NextSong", TsYearEnd), "page") }

\* Offset in hours of the local time zone of the executing machine.
TzOffsets == {0, -6}

----------------------------------------------------------------------------
(* The collaborators: spark.read.json and DataFrame.write.parquet.         *)

\* spark.read.json: the schema is the union of the keys of the records.
ReadJson(records) ==
    [columns |-> UNION {DOMAIN records[i] : i \in DOMAIN records},
     rows |-> records]

TableNames == {"songs.parquet", "artists.parquet", "users.parquet",
               "time.parquet", "songplays.parquet"}

Absent == [present |-> FALSE, rows |-> {}, partitionBy |-> <<>>]

\* write.partitionBy(...).parquet(path, 'overwrite'): replaces the contents.
Write(snk, path, table, parts) ==
    [snk EXCEPT ![path] = [present |-> TRUE, rows |-> table.rows,
                           partitionBy |-> parts]]

\* DataFrame.__getattr__: a column of that name, or AttributeError.
GetAttr(df, name) ==
    IF name \in df.columns
        THEN [kind |-> "column", err |-> "TypeError", df |-> df]
        ELSE [kind |-> "error", err |-> "AttributeError", df |-> df]

\* Lookup of a local name of a frame.
LookupName(frame, name) ==
    IF name \in DOMAIN frame
        THEN [kind |-> "dataframe", err |-> "none", df |-> frame[name]]
        ELSE [kind |-> "error", err |-> "NameError",
              df |-> [columns |-> {}, rows |-> {}]]

SelectExpr(df, cols) ==
    [columns |-> cols,
     rows |-> [i \in DOMAIN df.rows |-> Project(df.rows[i], cols)]]

\* orderBy changes the order of the rows only; drop_duplicates() without a
\* subset compares whole rows.
OrderBy(df, c) == df

DropDuplicates(df) == [columns |-> df.columns, rows |-> Range(df.rows)]

Representatives(S, key) ==
    {T \in SUBSET S :
        \A r \in S :
            Cardinality({t \in T : Project(t, key) = Project(r, key)}) = 1}

\* dropDuplicates(subset): one row of each group survives; Spark does not
\* define which one.
DropDuplicatesBy(df, key) ==
    {[columns |-> df.columns, rows |-> T] :
        T \in Representatives(Range(df.rows), key)}

Outcome(snk, wr, frame, e, ln) ==
    [sink |-> snk, writes |-> wr, frame |-> frame, err |-> e, line |-> ln]

----------------------------------------------------------------------------
(* process_song_data, src/etl.py lines 23-55.                              *)

SongsColumns == {"song_id", "title", "artist_id", "year", "duration"}

ArtistsColumns == {"artist_id", "artist_name", "artist_location",
                   "artist_latitude", "artist_longitude"}

SongsTable(df) == DropDuplicates(OrderBy(SelectExpr(df, SongsColumns), "song_id"))

SongsWriteTargetDirect(songs_table) ==
    [kind |-> "dataframe", err |-> "none", df |-> songs_table]

\* line 45: songs_table.songs_table
SongsWriteTarget(songs_table) == GetAttr(songs_table, "songs_table")

ProcessSongData(snk, wr) ==
    LET df == ReadJson(song_data)
        f35 == "df" :> df
    IN  IF ~(SongsColumns \subseteq df.columns)
        THEN {Outcome(snk, wr, f35, "AnalysisException", 38)}
        ELSE
        LET songs_table == SongsTable(df)
            f42 == ("songs_table" :> songs_table) @@ f35
            target == SongsWriteTarget(songs_table)
        IN  IF target.kind # "dataframe"
            THEN {Outcome(snk, wr, f42, target.err, 45)}
            ELSE
            LET snk45 == Write(snk, "songs.parquet", target.df,
                               <<"year", "artist_id">>)
                wr45 == Append(wr, "songs.parquet")
            IN  IF ~(ArtistsColumns \subseteq df.columns)
                THEN {Outcome(snk45, wr45, f42, "AnalysisException", 48)}
                ELSE
                {Outcome(Write(snk45, "artists.parquet", at, <<>>),
                         Append(wr45, "artists.parquet"),
                         ("artists_table" :> at) @@ f42, "none", 55) :
                    at \in DropDuplicatesBy(SelectExpr(df, ArtistsColumns),
                                            {"artist_id"})}

----------------------------------------------------------------------------
(* Calendar arithmetic behind datetime.fromtimestamp and the Spark column  *)
(* functions hour, dayofmonth, weekofyear, month and year.                 *)

SecondsPerHour == 3600

SecondsPerDay == 86400

\* (year, month, day) of a count of days since 1970-01-01.
CivilFromDays(days) ==
    LET z == days + 719468
        era == z \div 146097
        doe == z - era * 146097
        yoe == (doe - doe \div 1460 + doe \div 36524 - doe \div 146096) \div 365
        doy == doe - (365 * yoe + yoe \div 4 - yoe \div 100)
        mp == (5 * doy + 2) \div 153
        d == doy - (153 * mp + 2) \div 5 + 1
        m == IF mp < 10 THEN mp + 3 ELSE mp - 9
        y == yoe + era * 400 + (IF m <= 2 THEN 1 ELSE 0)
    IN  <<y, m, d>>

DaysFromCivil(y, m, d) ==
    LET yy == IF m <= 2 THEN y - 1 ELSE y
        era == yy \div 400
        yoe == yy - era * 400
        mp == IF m > 2 THEN m - 3 ELSE m + 9
        doy == (153 * mp + 2) \div 5 + d - 1
        doe == yoe * 365 + yoe \div 4 - yoe \div 100 + doy
    IN  era * 146097 + doe - 719468

\* ISO weeks of a year: 53 when the year starts or ends on a Thursday.
WeeksInYear(y) ==
    LET p(n) == (n + n \div 4 - n \div 100 + n \div 400) % 7
    IN  IF p(y) = 4 \/ p(y - 1) = 3 THEN 53 ELSE 52

\* weekofyear: the ISO 8601 week number of a date.
WeekOfYear(y, m, d) ==
    LET days == DaysFromCivil(y, m, d)
        weekday == ((days + 3) % 7) + 1
        ordinal == days - DaysFromCivil(y, 1, 1) + 1
        w == (ordinal - weekday + 10) \div 7
    IN  IF w < 1 THEN WeeksInYear(y - 1)
        ELSE IF w > WeeksInYear(y) THEN 1
        ELSE w

\* str(datetime): "YYYY-MM-DD HH:MM:SS" followed by ".ffffff" unless the
\* microsecond is zero.  The text is kept as its date, time and fraction.
DatetimeText(localSec, micro) ==
    LET days == localSec \div SecondsPerDay
        sod == localSec % SecondsPerDay
    IN  [date |-> CivilFromDays(days),
         time |-> <<sod \div SecondsPerHour, (sod % SecondsPerHour) \div 60,
                    sod % 60>>,
         frac |-> IF micro = 0 THEN <<>> ELSE <<micro>>]

get_datetime_seconds(x) ==
    DatetimeText(x.sec + tz_offset * SecondsPerHour, 0)

\* line 87: str(datetime.fromtimestamp(int(x) / 1000.0)), in local time.
get_datetime(x) ==
    DatetimeText(x.sec + tz_offset * SecondsPerHour, x.ms * 1000)

\* line 83: str(int(int(x)/1000))
get_timestamp(x) == x.sec

\* Cast of the text to a Spark timestamp (microsecond precision).
CastTimestamp(text) ==
    [year |-> text.date[1], month |-> text.date[2], day |-> text.date[3],
     hour |-> text.time[1], minute |-> text.time[2], second |-> text.time[3],
     micro |-> IF text.frac = <<>> THEN 0 ELSE text.frac[1]]

hour(text) == CastTimestamp(text).hour

dayofmonth(text) == CastTimestamp(text).day

month(text) == CastTimestamp(text).month

year(text) == CastTimestamp(text).year

weekofyear(text) ==
    LET t == CastTimestamp(text) IN WeekOfYear(t.year, t.month, t.day)

----------------------------------------------------------------------------
(* process_log_data, src/etl.py lines 58-124.                              *)

UsersColumns == {"userId", "firstName", "lastName", "gender", "level"}

\* Columns the select of lines 108-118 refers to.
SongplaysColumns == {"ts", "sessionId", "userId", "artist_id", "song_id",
                     "level", "location", "userAgent", "datetime", "year"}

FilterAll(df) == df

\* line 73: df.filter(df.page == 'NextSong')
Filter(df) ==
    [columns |-> df.columns,
     rows |-> SelectSeq(df.rows, LAMBDA r : Cell(r, "page") = <<"NextSong">>)]

\* lines 83-88: the columns timestamp and datetime, computed from ts.
WithDatetime(df) ==
    [columns |-> df.columns \cup {"timestamp", "datetime"},
     rows |-> [i \in DOMAIN df.rows |->
                 IF "ts" \in DOMAIN df.rows[i]
                 THEN ("timestamp" :> get_timestamp(df.rows[i].ts)) @@
                      ("datetime" :> get_datetime(df.rows[i].ts)) @@ df.rows[i]
                 ELSE df.rows[i]]]

\* The lambdas of lines 83 and 87 raise TypeError on a null ts; the error
\* surfaces when the DataFrame is evaluated.
UdfFails(df) == \E i \in DOMAIN df.rows : "ts" \notin DOMAIN df.rows[i]

TimeRow(r) ==
    IF "datetime" \in DOMAIN r
    THEN [start_time |-> r.datetime, hour |-> hour(r.datetime),
          day |-> dayofmonth(r.datetime), week |-> weekofyear(r.datetime),
          month |-> month(r.datetime), year |-> year(r.datetime)]
    ELSE EmptyFrame

\* lines 91-97: the select of the time table, before dropDuplicates.
TimeSelect(df) ==
    [columns |-> {"start_time", "hour", "day", "week", "month", "year"},
     rows |-> [i \in DOMAIN df.rows |-> TimeRow(df.rows[i])]]

\* monotonically_increasing_id: (partition index << 33) + index of the row
\* in its partition, kept as the pair <<partition, index>>.
\* The read of line 70 splits the n records, in scan order, in consecutive
\* partitions: part[i] is the index of the partition of record i.  The
\* filter of line 73 leaves every row in the partition of its record.
Partitionings(n) ==
    {part \in [1..n -> 0..(n - 1)] :
        \A i, j \in 1..n : i < j => part[i] <= part[j]}

\* The indexes, in scan order, of the records that the filter of line 73
\* keeps: FilterIndexes(rows)[k] is the record of row k of Filter.
RECURSIVE FilterIndexesFrom(_, _)
FilterIndexesFrom(rows, i) ==
    IF i > Len(rows) THEN <<>>
    ELSE IF Cell(rows[i], "page") = <<"NextSong">>
         THEN <<i>> \o FilterIndexesFrom(rows, i + 1)
         ELSE FilterIndexesFrom(rows, i + 1)

FilterIndexes(rows) == FilterIndexesFrom(rows, 1)

\* The id of row k of the filtered DataFrame: the partition of its record,
\* and the number of filtered rows before it in that partition.
MonotonicIdLocal(k, part, idx) ==
    <<0, Cardinality({j \in 1..(k - 1) : part[idx[j]] = part[idx[k]]})>>

MonotonicId(k, part, idx) ==
    <<part[idx[k]],
      Cardinality({j \in 1..(k - 1) : part[idx[j]] = part[idx[k]]})>>

IdLess(a, b) == a[1] < b[1] \/ (a[1] = b[1] /\ a[2] < b[2])

SongplaysAlias ==
    [ts |-> "ts", session_id |-> "sessionId", user_id |-> "userId",
     artist_id |-> "artist_id", song_id |-> "song_id", level |-> "level",
     location |-> "location", user_agent |-> "userAgent", year |-> "year"]

SongplaysRow(r, id) ==
    ("songplay_id" :> id) @@
    (IF "datetime" \in DOMAIN r THEN "month" :> month(r.datetime)
                                ELSE EmptyFrame) @@
    [n \in {a \in DOMAIN SongplaysAlias : SongplaysAlias[a] \in DOMAIN r} |->
        r[SongplaysAlias[n]]]

\* lines 108-119
SongplaysTable(df, part, idx) ==
    [columns |-> DOMAIN SongplaysAlias \cup {"month", "songplay_id"},
     rows |-> {SongplaysRow(df.rows[k], MonotonicId(k, part, idx)) :
                   k \in DOMAIN df.rows}]

\* line 80: the name users_table
UsersWriteTarget(frame) == LookupName(frame, "users_table")

\* lines 82-124, after the users table is written.
ProcessLogDataTail(snk80, wr80, f77) ==
    LET df == f77["df"]
    IN  IF "ts" \notin df.columns
        THEN {Outcome(snk80, wr80, f77, "AttributeError", 84)}
        ELSE
        LET df88 == WithDatetime(df)
            f88 == ("df" :> df88) @@ f77
            idx == FilterIndexes(ReadJson(log_data).rows)
        IN  UNION {
            LET f98 == ("time_table" :> tt) @@ f88
            IN  IF UdfFails(df88)
                THEN {Outcome([snk80 EXCEPT !["time.parquet"] = Absent], wr80,
                              f98, "PythonException", 101)}
                ELSE
                LET snk101 == Write(snk80, "time.parquet", tt,
                                    <<"year", "month">>)
                    wr101 == Append(wr80, "time.parquet")
                    f105 == ("song_df" :> "song_data/*/*/*/*.json") @@ f98
                IN  IF ~(SongplaysColumns \subseteq df88.columns)
                    THEN {Outcome(snk101, wr101, f105, "AnalysisException", 108)}
                    ELSE
                    {Outcome(Write(snk101, "songplays.parquet",
                                   SongplaysTable(df88, part, idx), <<"year", "month">>),
                             Append(wr101, "songplays.parquet"),
                             ("songplays_table" :> SongplaysTable(df88, part, idx)) @@ f105,
                             "none", 123) : part \in Partitionings(Len(log_data))}
            : tt \in DropDuplicatesBy(TimeSelect(df88), {"start_time"})}

ProcessLogData(snk, wr) ==
    LET df0 == ReadJson(log_data)
        f70 == "df" :> df0
    IN  IF GetAttr(df0, "page").kind # "column"
        THEN {Outcome(snk, wr, f70, "AttributeError", 73)}
        ELSE
        LET df == Filter(df0)
            f73 == "df" :> df
        IN  IF ~(UsersColumns \subseteq df.columns)
            THEN {Outcome(snk, wr, f73, "AnalysisException", 76)}
            ELSE UNION {
                LET f77 == ("artists_table" :> ut) @@ f73
                    target == UsersWriteTarget(f77)
                IN  IF target.kind # "dataframe"
                    THEN {Outcome(snk, wr, f77, target.err, 80)}
                    ELSE ProcessLogDataTail(
                             Write(snk, "users.parquet", target.df, <<>>),
                             Append(wr, "users.parquet"), f77)
                : ut \in DropDuplicatesBy(SelectExpr(df, UsersColumns),
                                          {"userId"})}

----------------------------------------------------------------------------
(* The program: calls of main, process_song_data and process_log_data.     *)

SongInputs == SeqsUpTo(SongRecordSet, MaxSongs)

LogInputs == SeqsUpTo(LogRecordSet, MaxLogs)

EmptySink == [t \in TableNames |-> Absent]

Init ==
    /\ song_data \in SongInputs
    /\ log_data \in LogInputs
    /\ tz_offset \in TzOffsets
    /\ sink = EmptySink
    /\ writes = <<>>
    /\ song_frame = EmptyFrame
    /\ log_frame = EmptyFrame
    /\ last = [entry |-> "none", fn |-> "none", err |-> "none", line |-> 0]
    /\ calls = 0
    /\ song_sinks = <<>>
    /\ sink_before = EmptySink
    /\ udf_calls = <<>>
    /\ id_calls = <<>>

CallProcessSongData ==
    /\ calls < MaxCalls
    /\ \E o \in ProcessSongData(sink, <<>>) :
        /\ sink' = o.sink
        /\ writes' = o.writes
        /\ song_frame' = o.frame
        /\ last' = [entry |-> "process_song_data", fn |-> "process_song_data",
                    err |-> o.err, line |-> o.line]
        /\ song_sinks' = Append(song_sinks, o.sink)
    /\ sink_before' = sink
    /\ calls' = calls + 1
    /\ UNCHANGED <<song_data, log_data, tz_offset, log_frame, udf_calls,
                   id_calls>>

CallProcessLogData ==
    /\ calls < MaxCalls
    /\ \E o \in ProcessLogData(sink, <<>>) :
        /\ sink' = o.sink
        /\ writes' = o.writes
        /\ log_frame' = o.frame
        /\ last' = [entry |-> "process_log_data", fn |-> "process_log_data",
                    err |-> o.err, line |-> o.line]
    /\ sink_before' = sink
    /\ calls' = calls + 1
    /\ UNCHANGED <<song_data, log_data, tz_offset, song_frame, song_sinks,
                   udf_calls, id_calls>>

\* main, lines 127-135: process_song_data, then process_log_data; an
\* exception of the first call ends main before the second call.
CallMain ==
    /\ calls < MaxCalls
    /\ \E o \in ProcessSongData(sink, <<>>) :
        /\ song_frame' = o.frame
        /\ song_sinks' = Append(song_sinks, o.sink)
        /\ IF o.err # "none"
           THEN /\ sink' = o.sink
                /\ writes' = o.writes
                /\ last' = [entry |-> "main", fn |-> "process_song_data",
                            err |-> o.err, line |-> o.line]
                /\ UNCHANGED log_frame
           ELSE \E p \in ProcessLogData(o.sink, o.writes) :
                /\ sink' = p.sink
                /\ writes' = p.writes
                /\ log_frame' = p.frame
                /\ last' = [entry |-> "main", fn |-> "process_log_data",
                            err |-> p.err, line |-> p.line]
    /\ sink_before' = sink
    /\ calls' = calls + 1
    /\ UNCHANGED <<song_data, log_data, tz_offset, udf_calls, id_calls>>

Next == CallProcessSongData \/ CallProcessLogData \/ CallMain

Spec == Init /\ [][Next]_vars

----------------------------------------------------------------------------
(* The functions get_timestamp and get_datetime of lines 83 and 87 and the *)
(* column functions of lines 93-97, evaluated on the ts values of the log  *)
(* records as functions of their argument.  No call of process_log_data    *)
(* gets as far as evaluating them (it ends at line 76 or 80); udf_calls    *)
(* holds the argument and the result of each evaluation and is left empty  *)
(* by the calls of the program.                                            *)

\* get_datetime and get_timestamp on one cell: int(None) raises TypeError.
UdfCall(cell) ==
    IF cell = <<>>
    THEN [arg |-> cell, raised |-> "TypeError"]
    ELSE [arg |-> cell, raised |-> "none",
          timestamp |-> get_timestamp(cell[1]),
          datetime |-> get_datetime(cell[1]),
          time |-> TimeRow([datetime |-> get_datetime(cell[1])])]

EvalTimestampUdfs ==
    /\ udf_calls = <<>>
    /\ udf_calls' = [i \in DOMAIN log_data |-> UdfCall(Cell(log_data[i], "ts"))]
    /\ UNCHANGED <<song_data, log_data, tz_offset, sink, writes, song_frame,
                   log_frame, last, calls, song_sinks, sink_before, id_calls>>

\* monotonically_increasing_id of line 119 evaluated on the NextSong records
\* in scan order, for a partitioning of the records read: id_calls holds,
\* for each row, its partition and the id it gets.  As for udf_calls, no call of
\* process_log_data gets as far as line 119.
EvalMonotonicIds ==
    /\ id_calls = <<>>
    /\ LET rows == Filter(ReadJson(log_data)).rows
           idx == FilterIndexes(ReadJson(log_data).rows)
       IN  \E part \in Partitionings(Len(log_data)) :
               id_calls' = [k \in DOMAIN rows |->
                               [row |-> rows[k], partition |-> part[idx[k]],
                                songplay_id |-> MonotonicId(k, part, idx)]]
    /\ UNCHANGED <<song_data, log_data, tz_offset, sink, writes, song_frame,
                   log_frame, last, calls, song_sinks, sink_before, udf_calls>>

NextUdf == EvalTimestampUdfs \/ EvalMonotonicIds

SpecUdf == Init /\ [][NextUdf]_vars

----------------------------------------------------------------------------
(* Vocabulary of the properties.                                           *)

WellFormedSongs ==
    \A i \in DOMAIN song_data :
        DOMAIN song_data[i] = DOMAIN SongRecord("", "", "", "")

WellFormedLogs ==
    \A i \in DOMAIN log_data :
        DOMAIN log_data[i] = DOMAIN LogRecord("", "", "", Ts(0, 0))

NextSongIndexes ==
    {i \in DOMAIN log_data : Cell(log_data[i], "page") = <<"NextSong">>}

NextSongRecords == {log_data[i] : i \in NextSongIndexes}

SomeRecordLacks(data, fields) ==
    \E i \in DOMAIN data : ~(fields \subseteq DOMAIN data[i])

SongEnded == last.fn = "process_song_data" /\ last.entry # "none"

LogEnded == last.fn = "process_log_data" /\
            last.entry \in {"process_log_data", "main"}

Bound(frame, name) == name \in DOMAIN frame

----------------------------------------------------------------------------
(* C1: the songs table derived by process_song_data holds exactly one row  *)
(* for every distinct song_id of the input, also when two records share a  *)
(* song_id and differ in another projected field, and every row equals the *)
(* projection of an input record.                                          *)
C1_OneRowPerSongId ==
    (SongEnded /\ WellFormedSongs /\ Bound(song_frame, "songs_table")) =>
        LET rows == song_frame["songs_table"].rows
        IN  /\ \A i \in DOMAIN song_data :
                Cardinality({r \in rows : Cell(r, "song_id") =
                                 Cell(song_data[i], "song_id")}) = 1
            /\ \A r \in rows : \E i \in DOMAIN song_data :
                r = Project(song_data[i], SongsColumns)

----------------------------------------------------------------------------
(* C2: a run of main on well-formed input ends without an error, having    *)
(* written the five tables, each to its own path, songs and artists before *)
(* users, time and songplays.                                              *)
C2_MainWritesFiveTables ==
    (last.entry = "main" /\ WellFormedSongs /\ WellFormedLogs) =>
        /\ last.err = "none"
        /\ \A t \in TableNames : sink[t].present
        /\ writes = <<"songs.parquet", "artists.parquet", "users.parquet",
                      "time.parquet", "songplays.parquet">>

----------------------------------------------------------------------------
(* C3: process_log_data emits one songplays row for every NextSong log     *)
(* record, with song_id and artist_id taken from the song record that      *)
(* matches (song title, artist name, duration), and null when no song      *)
(* record matches; a miss does not abort the run and the songplays table   *)
(* is written.                                                             *)
Matches(logrec, songrec) ==
    /\ Cell(logrec, "song") = Cell(songrec, "title")
    /\ Cell(logrec, "artist") = Cell(songrec, "artist_name")
    /\ Cell(logrec, "length") = Cell(songrec, "duration")

Resolved(row, logrec) ==
    IF \E j \in DOMAIN song_data : Matches(logrec, song_data[j])
    THEN \E j \in DOMAIN song_data :
            /\ Matches(logrec, song_data[j])
            /\ Cell(row, "song_id") = Cell(song_data[j], "song_id")
            /\ Cell(row, "artist_id") = Cell(song_data[j], "artist_id")
    ELSE Cell(row, "song_id") = <<>> /\ Cell(row, "artist_id") = <<>>

C3_JoinResolvesOrNull ==
    (LogEnded /\ WellFormedSongs /\ WellFormedLogs) =>
        /\ last.err = "none"
        /\ sink["songplays.parquet"].present
        /\ \A i \in NextSongIndexes :
            \E r \in sink["songplays.parquet"].rows :
                /\ Cell(r, "user_id") = Cell(log_data[i], "userId")
                /\ Cell(r, "ts") = Cell(log_data[i], "ts")
                /\ Resolved(r, log_data[i])

----------------------------------------------------------------------------
(* C4: in every state, every row of the users, time and songplays tables,  *)
(* derived or written, comes from a log record whose page is NextSong.     *)
UsersFromNextSong(rows) ==
    \A r \in rows : \E rec \in NextSongRecords : r = Project(rec, UsersColumns)

TimeFromNextSong(rows) ==
    \A r \in rows : \E rec \in NextSongRecords :
        Cell(r, "start_time") =
            IF Bound(rec, "ts") THEN <<get_datetime(rec.ts)>> ELSE <<>>

SongplaysFromNextSong(rows) ==
    \A r \in rows : \E rec \in NextSongRecords :
        /\ Cell(r, "ts") = Cell(rec, "ts")
        /\ Cell(r, "user_id") = Cell(rec, "userId")

C4_OnlyNextSongRecords ==
    /\ Bound(log_frame, "artists_table") =>
           UsersFromNextSong(log_frame["artists_table"].rows)
    /\ Bound(log_frame, "time_table") =>
           TimeFromNextSong(log_frame["time_table"].rows)
    /\ Bound(log_frame, "songplays_table") =>
           SongplaysFromNextSong(log_frame["songplays_table"].rows)
    /\ UsersFromNextSong(sink["users.parquet"].rows)
    /\ TimeFromNextSong(sink["time.parquet"].rows)
    /\ SongplaysFromNextSong(sink["songplays.parquet"].rows)

\* A call of process_log_data has derived a users row while the input
\* holds a record of another page.
C4_Witness ==
    /\ LogEnded
    /\ Bound(log_frame, "artists_table")
    /\ log_frame["artists_table"].rows # {}
    /\ \E i \in DOMAIN log_data : Cell(log_data[i], "page") = <<"Home">>

----------------------------------------------------------------------------
(* C5: the songplay_id values assigned to the rows are pairwise distinct   *)
(* and increase with the scan order of the records the rows come from,     *)
(* also when the rows are spread over several partitions.  Stated of the   *)
(* ids that line 119 assigns and of every songplays table of a call.       *)
IdsIncrease(ids) ==
    \A i, j \in DOMAIN ids :
        /\ i # j => ids[i] # ids[j]
        /\ i < j => IdLess(ids[i], ids[j])

TableIdsDistinct(rows) ==
    \A r, q \in rows : r # q => r["songplay_id"] # q["songplay_id"]

----------------------------------------------------------------------------
(* C6: start_time is a function of ts.  As claimed: at whole-second        *)
(* granularity, two records whose ts fall in the same second have the same *)
(* start_time, and ts = 1541990258796 gives 2018-11-12 04:57:38, year      *)
(* 2018, month 11, and hour 4 when the local zone is UTC.                  *)
Evaluated == {c \in Range(udf_calls) : c.raised = "none"}

C6_WholeSecondStartTime ==
    \A r \in Evaluated :
        /\ \A q \in Evaluated :
               r.arg[1].sec = q.arg[1].sec => r.datetime = q.datetime
        /\ (r.arg[1] = TsExample /\ tz_offset = 0) =>
               /\ r.time.start_time = [date |-> <<2018, 11, 12>>,
                                       time |-> <<4, 57, 38>>, frac |-> <<>>]
               /\ r.time.year = 2018
               /\ r.time.month = 11
               /\ r.time.hour = 4

(* C6, as the code has it: start_time keeps the milliseconds of ts.  Two   *)
(* ts of the same second give the same date and the same time down to the  *)
(* second, and equal start_times only when the ts are equal; the fraction  *)
(* of a start_time is the milliseconds of its ts.  ts = 1541990258796      *)
(* gives 2018-11-12 02:37:38.796000, year 2018, month 11 and hour 2 when   *)
(* the local zone is UTC.                                                  *)
C6_MillisecondStartTime ==
    \A r \in Evaluated :
        /\ \A q \in Evaluated :
               r.arg[1].sec = q.arg[1].sec =>
                   /\ r.datetime.date = q.datetime.date
                   /\ r.datetime.time = q.datetime.time
                   /\ (r.datetime = q.datetime) = (r.arg[1].ms = q.arg[1].ms)
        /\ r.time.start_time = r.datetime
        /\ CastTimestamp(r.datetime).micro = r.arg[1].ms * 1000
        /\ (r.arg[1] = TsExample /\ tz_offset = 0) =>
               /\ r.time.start_time = [date |-> <<2018, 11, 12>>,
                                       time |-> <<2, 37, 38>>,
                                       frac |-> <<796000>>]
               /\ r.time.year = 2018
               /\ r.time.month = 11
               /\ r.time.hour = 2

\* get_datetime has been evaluated on the ts of the example and on another
\* ts of the same second, the local zone UTC.
C6_Witness ==
    /\ tz_offset = 0
    /\ \E r, q \in Evaluated :
        /\ r.arg[1] = TsExample
        /\ q.arg[1].sec = r.arg[1].sec
        /\ q.arg[1].ms # r.arg[1].ms

----------------------------------------------------------------------------
(* C7: the time table written by process_log_data has exactly one row for  *)
(* every distinct start_time of the NextSong records, with hour in 0..23,  *)
(* day in 1..31, month in 1..12, week in 1..53, all computed from the      *)
(* start_time of the row.                                                  *)
FilteredStartTimes ==
    {get_datetime(rec.ts) : rec \in {x \in NextSongRecords : Bound(x, "ts")}}

C7_TimeTableUniqueAndInRange ==
    (LogEnded /\ WellFormedLogs) =>
        LET t == sink["time.parquet"]
        IN  /\ t.present
            /\ \A st \in FilteredStartTimes :
                   Cardinality({r \in t.rows : Cell(r, "start_time") = <<st>>}) = 1
            /\ \A r \in t.rows :
                /\ r.start_time \in FilteredStartTimes
                /\ r.hour \in 0..23 /\ r.hour = hour(r.start_time)
                /\ r.day \in 1..31 /\ r.day = dayofmonth(r.start_time)
                /\ r.month \in 1..12 /\ r.month = month(r.start_time)
                /\ r.week \in 1..53 /\ r.week = weekofyear(r.start_time)

----------------------------------------------------------------------------
(* C8: after every run of process_song_data on the same input the sink    *)
(* holds the same songs and the same artists table contents as after the   *)
(* first run.                                                              *)
C8_SongPipelineIdempotent ==
    \A i, j \in DOMAIN song_sinks :
        /\ song_sinks[i]["songs.parquet"] = song_sinks[j]["songs.parquet"]
        /\ song_sinks[i]["artists.parquet"] = song_sinks[j]["artists.parquet"]

\* The song pipeline has run twice on an input in which two records share
\* their artist_id and their song_id and differ in another field.
C8_Witness ==
    /\ Len(song_sinks) >= 2
    /\ \E i, j \in DOMAIN song_data :
        /\ song_data[i] # song_data[j]
        /\ Cell(song_data[i], "artist_id") = Cell(song_data[j], "artist_id")
        /\ Cell(song_data[i], "song_id") = Cell(song_data[j], "song_id")
        /\ Cell(song_data[i], "artist_id") # <<>>
        /\ Cell(song_data[i], "song_id") # <<>>

----------------------------------------------------------------------------
(* C9: when an input record lacks a required field (song_id or artist_id   *)
(* of a song record, userId or ts of a log record) the pipeline aborts     *)
(* with a structural error and the sink is as it was before.               *)
C9_LackingFieldIsStructuralError ==
    /\ (SongEnded /\ SomeRecordLacks(song_data, {"song_id", "artist_id"})) =>
           (last.err = "AnalysisException" /\ sink = sink_before)
    /\ (LogEnded /\ SomeRecordLacks(log_data, {"userId", "ts"})) =>
           (last.err = "AnalysisException" /\ sink = sink_before)

----------------------------------------------------------------------------
(* C10: the users table written by process_log_data has exactly one row    *)
(* for every distinct userId of the NextSong records, the projection of    *)
(* the first record of that user in scan order.                            *)
FirstOfUser(i) ==
    \A j \in NextSongIndexes :
        Cell(log_data[j], "userId") = Cell(log_data[i], "userId") => i <= j

C10_OneUserRowFirstWins ==
    (LogEnded /\ WellFormedLogs) =>
        LET t == sink["users.parquet"]
        IN  /\ t.present
            /\ t.rows = {Project(log_data[i], UsersColumns) :
                             i \in {k \in NextSongIndexes : FirstOfUser(k)}}

====
